---- MODULE Spec2Model ----
(***************************************************************************)
(* Credential pool, quota ledger and chunk dispatch of AIVerse-TTS-GUI.py. *)
(*                                                                         *)
(* Spec       the ledger / rotation / dispatch machine: one worker job at  *)
(*            a time (process_text), the operator's actions on the         *)
(*            interactive thread, the clock and process restarts.          *)
(* SpecChunk  chunk_text applied to every bounded text and chunk size.     *)
(* SpecConc   several threads running the usage-recording block of          *)
(*            process_text at once, statement by statement.                *)
(* SpecFile   the writes and loads of the durable files, step by step,     *)
(*            with failing writes and process crashes.                     *)
(* SpecQuota  one job on a fresh single key with every call succeeding.    *)
(* SpecKeys   jobs and edits of the key list on a disk that works.         *)
(* SpecJob    jobs of several chunks with cancellation and a vendor that   *)
(*            answers anything; what the job sends and gives out is kept.  *)
(* SpecLock   the worker and the interactive thread, statement by          *)
(*            statement around state_lock.                                 *)
(* SpecDisk   jobs on a disk that stops and resumes taking writes, with a  *)
(*            keys.json that can be taken away.                            *)
(* SpecWindow jobs with rejections while the clock moves.                  *)
(* SpecRemoval jobs and edits of the key list, the removed keys followed.  *)
(* SpecOverage one-chunk jobs, short or long, with rejections, while the   *)
(*            clock moves and the disk stops and resumes taking writes.    *)
(***************************************************************************)
EXTENDS Integers, Sequences, FiniteSets, TLC

(* ------------------------------ bounds --------------------------------- *)
\* latest clock value explored (the clock counts quota-window units)
MaxTime == 1
\* most chunks in one job
MaxChunks == 1
\* most entries the operator types into the key list
MaxKeys == 2
\* most key lists the operator saves
MaxEdits == 1
\* most times the disk turns unwritable or writable again
MaxDiskChanges == 1
\* longest text given to chunk_text, in characters
MaxLen == 6
\* largest chunk_size given to chunk_text
MaxSize == 4
\* threads that record usage at the same time
NThreads == 2
\* most key lists the operator saves when only jobs and edits are followed
MaxKeyEdits == 2
\* most times the disk turns unwritable or writable again where the jobs
\* and the disk alone are followed
MaxDiskTurns == 2
\* most chunks of a job when the jobs alone are followed
MaxJobChunks == 3
\* most chunks of the job in the quota scenario
MaxQuotaChunks == 3

(* ------------------------- program constants --------------------------- *)
\* DEFAULT_CONFIG["char_limit"], scaled down from 7500: as in the program
\* it is above the length of a chunk, which is above the poison sentinel
CHAR_LIMIT == 6
\* DEFAULT_CONFIG["update_interval_days"], in clock units
UPDATE_INTERVAL_DAYS == 1
\* the value both counters get when the vendor rejects a key (401/403)
POISON_SENTINEL == 4
\* the credentials the operator can type
Keys == {"k1", "k2"}
\* the value of the worker's local `key` while it holds no key in use
NoKey == "none"
\* the placeholder list written to a missing keys.json
DEFAULT_API_KEYS == <<"k1", "k2">>
\* len(chunk) of the chunks of a job
ChunkLens == {5}
\* keys.json at the first start: written by load_keys from the placeholder
\* list, or put there by the operator with one key in it
InstalledKeyLists == {DEFAULT_API_KEYS, <<"k1">>}

(* ----------------------------- variables ------------------------------- *)
VARIABLES
    API_KEYS,           \* list of keys (rotation order)
    key_usage,          \* dict key -> chunks used
    char_usage,         \* dict key -> characters used
    first_used,         \* dict key -> time of first use in the window
    invalid_keys,       \* set of keys known unusable
    current_key_index,  \* rotation cursor, 0-based
    keyFile,            \* keys.json: <<>> when missing, else <<list>>
    stateFile,          \* key_state.json: <<>> when missing, else <<payload>>
    backups,            \* the stamps of the key_state.json.bak.<stamp> files
    now,                \* the clock
    pc,                 \* position of the worker thread in process_text
    chunks,             \* the job's chunks (their lengths)
    i,                  \* index of the chunk being handled, from 1
    key,                \* the key chosen for the current chunk
    cancel_requested,   \* App.cancel_requested
    log,                \* why the running process_text leaves its loop early
    edits,              \* key lists the operator has saved so far
    outage,             \* changes of the disk so far: odd while the
                        \* durable writes fail (disk full, file locked)
    text,               \* chunk_text: its argument text
    chunk_size,         \* chunk_text: its argument chunk_size
    returned,           \* chunk_text: the list it returned
    cpc,                \* chunk_text: "off", "call" or "done"
    conc,               \* the recording threads: the owner of state_lock,
                        \* each thread's position, arguments and temporary,
                        \* and the ledger they started from
    fs,                 \* the durable files byte-wise: target and .tmp file
                        \* of each path, the write in progress, the last load
    obs                 \* what the running job has exchanged with the
                        \* outside: the chunks it sent to the vendor, the
                        \* last answer, the keys the vendor rejected (and
                        \* when each key was rejected last, in any job), the
                        \* chunks whose mp3 file was written, the last
                        \* progress report of the job, and the message
                        \* box App.run showed last; <<>> where not
                        \* followed

ledgerVars == <<key_usage, char_usage, first_used, invalid_keys>>
memVars == <<API_KEYS, key_usage, char_usage, first_used, invalid_keys,
             current_key_index>>
fileVars == <<keyFile, stateFile, backups>>
jobVars == <<pc, chunks, i, key, cancel_requested, log>>
vars == <<API_KEYS, key_usage, char_usage, first_used, invalid_keys,
          current_key_index, keyFile, stateFile, backups, now, pc, chunks, i, key,
          cancel_requested, log, edits, outage, text, chunk_size, returned,
          cpc, conc, fs, obs>>
mainVars == <<API_KEYS, key_usage, char_usage, first_used, invalid_keys,
              current_key_index, keyFile, stateFile, backups, now, pc, chunks, i, key,
              cancel_requested, log, edits, outage>>
chunkVars == <<text, chunk_size, returned, cpc>>
\* what the actions of Spec leave alone
sideVars == <<chunkVars, conc, fs>>
offVars == <<sideVars, obs>>

(* ------------------------------ dicts ---------------------------------- *)
EmptyDict == [x \in {} |-> 0]
Get(d, k, dflt) == IF k \in DOMAIN d THEN d[k] ELSE dflt
Put(d, k, v) == [x \in (DOMAIN d) \cup {k} |-> IF x = k THEN v ELSE d[x]]
Update(d, e) == [x \in (DOMAIN d) \cup (DOMAIN e) |->
                    IF x \in DOMAIN e THEN e[x] ELSE d[x]]
Range(s) == {s[n] : n \in DOMAIN s}

\* datetime.isoformat() and datetime.fromisoformat() of an aware UTC time
IsoFormat(t) == <<"iso", t>>
FromIsoFormat(s) == s[2]

\* the in-memory ledger as one value
Ledger(ku, cu, fu, inv) ==
    [key_usage |-> ku, char_usage |-> cu, first_used |-> fu,
     invalid_keys |-> inv]
Mem == Ledger(key_usage, char_usage, first_used, invalid_keys)
EmptyLedger == Ledger(EmptyDict, EmptyDict, EmptyDict, {})

(* --------------------------- persistence ------------------------------- *)
\* the payload _save_state_locked builds
StatePayload(L) ==
    [key_usage |-> L.key_usage, char_usage |-> L.char_usage,
     first_used |-> [k \in DOMAIN L.first_used |-> IsoFormat(L.first_used[k])],
     invalid_keys |-> L.invalid_keys]

\* atomic_write_json(path, obj): the file after the call; ok = FALSE is a
\* write that raised before os.replace, which leaves the target as it was
atomic_write_json(file, obj, ok) == IF ok THEN <<obj>> ELSE file

\* the outcomes of a durable write: it succeeds, or during an outage it
\* raises and the caller prints the error and goes on
WriteOutcomes == {outage % 2 = 0}

\* load_keys: the list it leaves in API_KEYS
LoadedKeys(kf) == IF kf = <<>> THEN DEFAULT_API_KEYS ELSE kf[1]

\* load_keys: setdefault(k, 0) for every loaded key
SetDefaults(d, ks) == [x \in (DOMAIN d) \cup Range(ks) |-> Get(d, x, 0)]

\* load_state, the part before reset_expired_keys
LoadStateRaw(L, sf) ==
    IF sf = <<>>
    THEN EmptyLedger
    ELSE Ledger(Update(L.key_usage, sf[1].key_usage),
                Update(L.char_usage, sf[1].char_usage),
                Update(L.first_used,
                       [k \in DOMAIN sf[1].first_used |->
                            FromIsoFormat(sf[1].first_used[k])]),
                sf[1].invalid_keys)

\* the keys reset_expired_keys resets at time t
ExpiredKeys(L, t) ==
    {k \in DOMAIN L.first_used : t - L.first_used[k] >= UPDATE_INTERVAL_DAYS}

\* RepairPass that flags nothing
RepairPassNone(inv, cu) == inv

\* reset_expired_keys, its second loop: every key at or over CHAR_LIMIT is
\* added to invalid_keys
RepairPass(inv, cu) == inv \cup {k \in DOMAIN cu : cu[k] >= CHAR_LIMIT}

\* reset_expired_keys with the cutoff test ">" in place of ">="
reset_expired_keys_late(L, t) ==
    LET E == {k \in DOMAIN L.first_used :
                 t - L.first_used[k] > UPDATE_INTERVAL_DAYS}
        ku == [k \in (DOMAIN L.key_usage) \cup E |->
                  IF k \in E THEN 0 ELSE L.key_usage[k]]
        cu == [k \in (DOMAIN L.char_usage) \cup E |->
                  IF k \in E THEN 0 ELSE L.char_usage[k]]
        fu == [k \in (DOMAIN L.first_used) \ E |-> L.first_used[k]]
    IN  Ledger(ku, cu, fu, RepairPass(L.invalid_keys \ E, cu))

\* reset_expired_keys: the ledger it leaves in memory
reset_expired_keys(L, t) ==
    LET E == ExpiredKeys(L, t)
        ku == [k \in (DOMAIN L.key_usage) \cup E |->
                  IF k \in E THEN 0 ELSE L.key_usage[k]]
        cu == [k \in (DOMAIN L.char_usage) \cup E |->
                  IF k \in E THEN 0 ELSE L.char_usage[k]]
        fu == [k \in (DOMAIN L.first_used) \ E |-> L.first_used[k]]
    IN  Ledger(ku, cu, fu, RepairPass(L.invalid_keys \ E, cu))

\* reset_expired_keys: its local "changed"
ResetChanged(L, t) == ExpiredKeys(L, t) # {}

\* the ledger load_keys() and the first part of load_state() leave in
\* memory, starting from the in-memory ledger L
LoadedLedger(L) ==
    LET ks == LoadedKeys(keyFile)
    IN  LoadStateRaw(Ledger(SetDefaults(L.key_usage, ks),
                            SetDefaults(L.char_usage, ks),
                            L.first_used, L.invalid_keys), stateFile)

\* load_keys: keys.json is missing and the atomic_write_json of the default
\* list, which is in no try block, raises
LoadKeysRaises(ok) == keyFile = <<>> /\ ~ok

\* load_keys(); load_state() as run at process start and at each job start,
\* from the in-memory ledger L: memory and the files afterwards (ok: the
\* writes of the durable files succeed)
LoadAll(L, ok) ==
    LET ks   == LoadedKeys(keyFile)
        L1   == LoadedLedger(L)
        L2   == reset_expired_keys(L1, now)
    IN  /\ ~LoadKeysRaises(ok)
        /\ API_KEYS' = ks
        /\ keyFile' = IF keyFile = <<>> THEN <<DEFAULT_API_KEYS>> ELSE keyFile
        /\ key_usage' = L2.key_usage
        /\ char_usage' = L2.char_usage
        /\ first_used' = L2.first_used
        /\ invalid_keys' = L2.invalid_keys
        /\ stateFile' = IF ResetChanged(L1, now)
                        THEN atomic_write_json(stateFile, StatePayload(L2), ok)
                        ELSE stateFile
        /\ backups' = IF ResetChanged(L1, now) /\ stateFile # <<>>
                      THEN backups \cup {now} ELSE backups

(* ------------------------------- Init ---------------------------------- *)
\* first start on a fresh install: load_config(); load_keys(); load_state()
InitLedger ==
    /\ key_usage = EmptyDict
    /\ char_usage = EmptyDict
    /\ first_used = EmptyDict
    /\ invalid_keys = {}
    /\ stateFile = <<>>

InitRest ==
    /\ API_KEYS \in InstalledKeyLists
    /\ current_key_index = 0
    /\ keyFile = <<API_KEYS>>
    /\ backups = {}
    /\ now = 0
    /\ pc = "idle"
    /\ chunks = <<>>
    /\ i = 0
    /\ key = NoKey
    /\ cancel_requested = FALSE
    /\ log = "none"
    /\ edits = 0
    /\ outage = 0

ChunkOff ==
    /\ text = <<>>
    /\ chunk_size = 1
    /\ returned = <<>>
    /\ cpc = "off"

\* no recording threads besides the worker of Spec
ConcOff == conc = [lock |-> 0, th |-> <<>>, start |-> EmptyLedger]

InitMain == InitLedger /\ InitRest

\* the files are not followed byte-wise
FileOff == fs = <<>>

\* the mp3 files and the message boxes are not followed
ObsOff == obs = <<>>

Init == InitMain /\ ChunkOff /\ ConcOff /\ FileOff /\ ObsOff

(* --------------------------- worker thread ----------------------------- *)
\* the job gives out o, where that is followed
Observe(o) == obs' = IF obs = <<>> THEN obs ELSE o

ChunkSeqs == UNION {[1..n -> ChunkLens] : n \in 0..MaxChunks}

\* App.start and the head of process_text: load_keys, load_state, chunk_text
StartJobWith(seqs) ==
    /\ UNCHANGED <<sideVars, outage>>
    /\ pc = "idle"
    /\ \E cs \in seqs, ok \in WriteOutcomes :
          /\ chunks' = cs
          /\ LoadAll(Mem, ok)
          /\ Observe([obs EXCEPT !.sent = <<>>, !.resp = "none",
                                  !.rejected = {}, !.produced = {},
                                  !.report = <<0, Len(cs)>>])
    /\ i' = 1
    /\ pc' = "loop"
    /\ cancel_requested' = FALSE
    /\ log' = "none"
    /\ UNCHANGED <<current_key_index, now, key, edits>>

StartJob == StartJobWith(ChunkSeqs)

\* App.start, and load_keys() at the head of process_text raises: the
\* exception leaves process_text before a chunk is handled, App.run shows
\* the error box and calls reset()
StartJobError ==
    /\ UNCHANGED <<sideVars, outage>>
    /\ pc = "idle"
    /\ \E ok \in WriteOutcomes : LoadKeysRaises(ok)
    /\ Observe([obs EXCEPT !.dialog = "showerror"])
    /\ UNCHANGED <<memVars, fileVars, now, jobVars, edits>>

\* the for loop runs out of chunks
LoopEnd ==
    /\ UNCHANGED <<offVars, outage>>
    /\ pc = "loop"
    /\ i > Len(chunks)
    /\ pc' = "final"
    /\ UNCHANGED edits
    /\ UNCHANGED <<memVars, fileVars, now, chunks, i, key, cancel_requested, log>>

\* cancel_check that never sees the flag
cancel_check_never == FALSE

\* App.run: "cancel_check=lambda: self.cancel_requested"
cancel_check == cancel_requested

\* cancel_check() is true at the chunk boundary
ObserveCancel ==
    /\ UNCHANGED <<offVars, outage>>
    /\ pc = "loop"
    /\ i <= Len(chunks)
    /\ cancel_check
    /\ pc' = "final"
    /\ log' = "cancelled"
    /\ UNCHANGED edits
    /\ UNCHANGED <<memVars, fileVars, now, chunks, i, key, cancel_requested>>

\* Scan that returns the key at the cursor without any test
ScanNoTest(n, left, idx, inv) == <<TRUE, API_KEYS[idx + 1], (idx + 1) % n, inv>>

\* Scan without the "if key in invalid_keys: continue" test
RECURSIVE ScanNoInvalidTest(_, _, _, _)
ScanNoInvalidTest(n, left, idx, inv) ==
    IF left = 0 THEN <<FALSE, NoKey, idx, inv>>
    ELSE LET k == API_KEYS[idx + 1]
             nxt == (idx + 1) % n
         IN  IF Get(char_usage, k, 0) < CHAR_LIMIT
             THEN <<TRUE, k, nxt, inv>>
             ELSE ScanNoInvalidTest(n, left - 1, nxt, inv \cup {k})

\* get_next_valid_api_key: the scan as a function of the cursor.
\* Scan(n, left, idx, inv) = <<found, key, idx', inv'>> after examining at
\* most `left` more keys.
RECURSIVE Scan(_, _, _, _)
Scan(n, left, idx, inv) ==
    IF left = 0 THEN <<FALSE, NoKey, idx, inv>>
    ELSE LET k == API_KEYS[idx + 1]
             nxt == (idx + 1) % n
         IN  IF k \in inv THEN Scan(n, left - 1, nxt, inv)
             ELSE IF Get(char_usage, k, 0) < CHAR_LIMIT
                  THEN <<TRUE, k, nxt, inv>>
                  ELSE Scan(n, left - 1, nxt, inv \cup {k})

get_next_valid_api_key ==
    Scan(Len(API_KEYS), Len(API_KEYS), current_key_index, invalid_keys)

\* the scan reads API_KEYS[current_key_index] within the list
CursorInRange == current_key_index < Len(API_KEYS)

\* get_next_valid_api_key returns a key
NextKey ==
    /\ UNCHANGED <<sideVars, outage>>
    /\ Observe([obs EXCEPT !.sent = Append(@, i)])
    /\ pc = "loop"
    /\ i <= Len(chunks)
    /\ ~cancel_check
    /\ CursorInRange
    /\ LET r == get_next_valid_api_key
       IN  /\ r[1]
           /\ key' = r[2]
           /\ current_key_index' = r[3]
           /\ invalid_keys' = r[4]
    /\ pc' = "send"
    /\ UNCHANGED edits
    /\ UNCHANGED <<API_KEYS, key_usage, char_usage, first_used, fileVars, now,
                   chunks, i, cancel_requested, log>>

\* get_next_valid_api_key raises RuntimeError
NextExhausted ==
    /\ UNCHANGED <<offVars, outage>>
    /\ pc = "loop"
    /\ i <= Len(chunks)
    /\ ~cancel_check
    /\ CursorInRange
    /\ LET r == get_next_valid_api_key
       IN  /\ ~r[1]
           /\ current_key_index' = r[3]
           /\ invalid_keys' = r[4]
    /\ pc' = "final"
    /\ log' = "exhausted"
    /\ UNCHANGED edits
    /\ UNCHANGED <<API_KEYS, key_usage, char_usage, first_used, fileVars, now,
                   chunks, i, key, cancel_requested>>

\* get_next_valid_api_key reads API_KEYS[current_key_index] past the end of
\* the list: IndexError, which process_text does not catch. App.run shows
\* the error dialog and calls reset(); the save_state() after the loop is
\* not reached
NextIndexError ==
    /\ UNCHANGED <<sideVars, outage>>
    /\ pc = "loop"
    /\ i <= Len(chunks)
    /\ ~cancel_check
    /\ ~CursorInRange
    /\ Observe([obs EXCEPT !.report = <<>>, !.dialog = "showerror"])
    /\ pc' = "idle"
    /\ chunks' = <<>>
    /\ i' = 0
    /\ key' = NoKey
    /\ cancel_requested' = FALSE
    /\ log' = "none"
    /\ UNCHANGED <<memVars, fileVars, now, edits>>

\* SendFail with the chunk left to be tried again
SendFailRetry ==
    /\ UNCHANGED <<sideVars, outage>>
    /\ Observe([obs EXCEPT !.resp = "failed"])
    /\ pc = "send"
    /\ key' = NoKey
    /\ pc' = "loop"
    /\ UNCHANGED edits
    /\ UNCHANGED <<memVars, fileVars, now, chunks, i, cancel_requested,
                   log>>

\* send_to_elevenlabs_api returns False without touching the ledger:
\* network error, status other than 200/401/403, or the mp3 write failed
SendFail ==
    /\ UNCHANGED <<sideVars, outage>>
    /\ Observe([obs EXCEPT !.resp = "failed"])
    /\ pc = "send"
    /\ i' = i + 1
    /\ key' = NoKey
    /\ pc' = "loop"
    /\ UNCHANGED edits
    /\ UNCHANGED <<memVars, fileVars, now, chunks, cancel_requested,
                   log>>

\* Poisoned that leaves the key unflagged
PoisonedNever(inv, k) == inv

\* send_to_elevenlabs_api: "invalid_keys.add(api_key)"
Poisoned(inv, k) == inv \cup {k}

\* send_to_elevenlabs_api gets 401/403
SendRejected ==
    /\ UNCHANGED <<sideVars, outage>>
    /\ Observe([obs EXCEPT !.resp = "rejected", !.rejected = @ \cup {key},
                            !.rejected_at = Put(@, key, now)])
    /\ pc = "send"
    /\ invalid_keys' = Poisoned(invalid_keys, key)
    /\ key_usage' = Put(key_usage, key, POISON_SENTINEL)
    /\ char_usage' = Put(char_usage, key, POISON_SENTINEL)
    /\ i' = i + 1
    /\ key' = NoKey
    /\ pc' = "loop"
    /\ UNCHANGED edits
    /\ UNCHANGED <<API_KEYS, first_used, current_key_index, fileVars, now,
                   chunks, cancel_requested, log>>

\* Charge with "=" in place of "+="
ChargeOverwrite(cu, k, n) == Put(cu, k, n)

\* process_text: "char_usage[key] = char_usage.get(key, 0) + n_chars"
Charge(cu, k, n) == Put(cu, k, Get(cu, k, 0) + n)

\* MarkOverLimit that never flags the key
MarkOverLimitNever(inv, cu, k) == inv

\* process_text: "if char_usage[key] >= CHAR_LIMIT: invalid_keys.add(key)"
MarkOverLimit(inv, cu, k) ==
    IF cu[k] >= CHAR_LIMIT THEN inv \cup {k} ELSE inv

\* FirstUse without the "if key not in first_used" test
FirstUseAlways(fu, k, t) == Put(fu, k, t)

\* process_text: "if key not in first_used: first_used[key] = now"
FirstUse(fu, k, t) == IF k \in DOMAIN fu THEN fu ELSE Put(fu, k, t)

\* send_to_elevenlabs_api returns True; process_text then records the use
\* under state_lock, saves and reports the progress
RecordUsage ==
    /\ pc = "send"
    /\ LET n_chars == chunks[i]
           fu == FirstUse(first_used, key, now)
           ku == Put(key_usage, key, Get(key_usage, key, 0) + 1)
           cu == Charge(char_usage, key, n_chars)
           inv == MarkOverLimit(invalid_keys, cu, key)
       IN  /\ first_used' = fu
           /\ key_usage' = ku
           /\ char_usage' = cu
           /\ invalid_keys' = inv
           /\ \E ok \in WriteOutcomes :
                 /\ stateFile' = atomic_write_json(stateFile,
                                     StatePayload(Ledger(ku, cu, fu, inv)), ok)
    /\ Observe([obs EXCEPT !.resp = "ok", !.produced = @ \cup {i},
                            !.report = <<i, Len(chunks)>>,
                            !.removed = @ \ {key},
                            !.longest = Put(@, key,
                                IF Get(@, key, 0) > chunks[i]
                                THEN Get(@, key, 0) ELSE chunks[i]),
                            !.crossed = IF char_usage'[key] >= CHAR_LIMIT
                                        THEN Put(@, key, first_used'[key])
                                        ELSE @])
    /\ key' = NoKey
    /\ pc' = "sleep"
    /\ UNCHANGED <<API_KEYS, current_key_index, keyFile, backups, now, chunks,
                   i, cancel_requested, log, edits, outage, sideVars>>

\* time.sleep(3), then the for loop steps to the next chunk
Sleep ==
    /\ UNCHANGED <<offVars, outage>>
    /\ pc = "sleep"
    /\ i' = i + 1
    /\ pc' = "loop"
    /\ UNCHANGED <<memVars, fileVars, now, chunks, key, cancel_requested, log,
                   edits>>

\* FinalSave without the save_state()
FinalNoSave ==
    /\ UNCHANGED <<sideVars, outage>>
    /\ pc = "final"
    /\ Observe([obs EXCEPT !.report = <<>>, !.dialog = "showinfo"])
    /\ pc' = "idle"
    /\ chunks' = <<>>
    /\ i' = 0
    /\ key' = NoKey
    /\ cancel_requested' = FALSE
    /\ log' = "none"
    /\ UNCHANGED <<memVars, fileVars, now, edits>>

\* save_state() after the loop; process_text returns (its locals are gone,
\* the line it printed about its stop is history) and App.run's finally
\* calls reset()
FinalSave ==
    /\ UNCHANGED <<sideVars, outage>>
    /\ pc = "final"
    /\ Observe([obs EXCEPT !.report = <<>>, !.dialog = "showinfo"])
    /\ \E ok \in WriteOutcomes :
          /\ stateFile' = atomic_write_json(stateFile, StatePayload(Mem), ok)
    /\ pc' = "idle"
    /\ chunks' = <<>>
    /\ i' = 0
    /\ key' = NoKey
    /\ cancel_requested' = FALSE
    /\ log' = "none"
    /\ UNCHANGED <<memVars, keyFile, backups, now, edits>>

(* ------------------------- interactive thread -------------------------- *)
\* App.cancel
Cancel ==
    /\ UNCHANGED <<offVars, outage>>
    /\ pc # "idle"
    /\ ~cancel_requested
    /\ cancel_requested' = TRUE
    /\ UNCHANGED edits
    /\ UNCHANGED <<memVars, fileVars, now, pc, chunks, i, key, log>>

\* App.manage_keys: save_keys(), then a "Manage API Keys" window opens.
\* Any number of these windows can be open and each can be saved or closed
\* at any later time, so the windows are not part of the state.
ManageKeys ==
    /\ UNCHANGED <<offVars, outage>>
    /\ \E ok \in WriteOutcomes :
          /\ keyFile' = atomic_write_json(keyFile, API_KEYS, ok)
    /\ UNCHANGED <<memVars, stateFile, backups, now, jobVars, edits>>

\* the lists the operator can leave in the text area (blank lines dropped)
KeyLists == UNION {[1..n -> Keys] : n \in 0..MaxKeys}

\* save_and_close with the list new_keys, not empty
Rekey(new_keys) ==
    /\ \E ok \in WriteOutcomes :
          /\ API_KEYS' = new_keys
          /\ key_usage' = [k \in Range(new_keys) |-> Get(key_usage, k, 0)]
          /\ char_usage' = [k \in Range(new_keys) |-> Get(char_usage, k, 0)]
          /\ first_used' = [k \in Range(new_keys) \cap DOMAIN first_used |->
                               first_used[k]]
          /\ invalid_keys' = invalid_keys \cap Range(new_keys)
          /\ current_key_index' = 0
          /\ keyFile' = atomic_write_json(keyFile, new_keys, ok)
    /\ Observe([obs EXCEPT !.removed = (@ \cup Range(API_KEYS))
                                            \ Range(new_keys)])
    /\ edits' = edits + 1
    /\ UNCHANGED <<stateFile, backups, now, jobVars, outage, sideVars>>

\* SaveAndCloseOn without the "if not new_keys" test
SaveAndCloseOnAny(new_keys) == Rekey(new_keys)

\* save_and_close with the list new_keys in the text area: an empty list
\* gets a warning and nothing else
SaveAndCloseOn(new_keys) ==
    IF new_keys = <<>> THEN UNCHANGED vars ELSE Rekey(new_keys)

SaveAndClose ==
    /\ edits < MaxEdits
    /\ \E new_keys \in KeyLists : SaveAndCloseOn(new_keys)

(* -------------------------- environment -------------------------------- *)
\* time passes
Tick ==
    /\ UNCHANGED <<offVars, outage>>
    /\ now < MaxTime
    /\ now' = now + 1
    /\ UNCHANGED edits
    /\ UNCHANGED <<memVars, fileVars, jobVars>>

\* the durable writes start to fail, or work again
DiskTrouble ==
    /\ outage < MaxDiskChanges
    /\ outage' = outage + 1
    /\ UNCHANGED <<memVars, fileVars, now, jobVars, edits, offVars>>

\* keys.json is deleted or moved away from outside the program
KeyFileLost ==
    /\ UNCHANGED <<offVars, outage>>
    /\ keyFile # <<>>
    /\ keyFile' = <<>>
    /\ UNCHANGED <<memVars, stateFile, backups, now, jobVars, edits>>

\* the process ends (its daemon worker with it) and is started again:
\* module globals are re-initialised, then load_keys(); load_state()
Restart ==
    /\ UNCHANGED <<offVars, outage>>
    /\ \E ok \in WriteOutcomes :
          LoadAll(EmptyLedger, ok)
    /\ current_key_index' = 0
    /\ pc' = "idle"
    /\ chunks' = <<>>
    /\ i' = 0
    /\ key' = NoKey
    /\ cancel_requested' = FALSE
    /\ log' = "none"
    /\ UNCHANGED <<now, edits>>

(* ------------------------------ chunk_text ----------------------------- *)
\* the characters of a text: two letters and one whitespace character
Letters == {"a", "b"}
Whitespace == {" "}
Texts == UNION {[1..n -> Letters \cup Whitespace] : n \in 0..MaxLen}

\* str.split(): the maximal runs of non-whitespace characters, in order
RECURSIVE SplitFrom(_, _, _, _)
SplitFrom(t, idx, cur, acc) ==
    IF idx > Len(t)
    THEN IF cur = <<>> THEN acc ELSE Append(acc, cur)
    ELSE IF t[idx] \in Whitespace
         THEN SplitFrom(t, idx + 1, <<>>,
                        IF cur = <<>> THEN acc ELSE Append(acc, cur))
         ELSE SplitFrom(t, idx + 1, Append(cur, t[idx]), acc)
Split(t) == SplitFrom(t, 1, <<>>, <<>>)

\* " ".join(ws)
RECURSIVE Join(_)
Join(ws) ==
    IF ws = <<>> THEN <<>>
    ELSE IF Len(ws) = 1 THEN ws[1]
    ELSE ws[1] \o <<" ">> \o Join(Tail(ws))

\* ChunkStep that forgets the separator when it adds a word to the chunk
ChunkStepNoSeparator(st, w, size) ==
    IF st.length + Len(w) + 1 <= size
    THEN [chunks |-> st.chunks, curr |-> Append(st.curr, w),
          length |-> st.length + Len(w)]
    ELSE [chunks |-> Append(st.chunks, Join(st.curr)), curr |-> <<w>>,
          length |-> Len(w)]

\* one pass of the for loop of chunk_text over word w;
\* st = [chunks, curr, length]
ChunkStep(st, w, size) ==
    IF st.length + Len(w) + 1 <= size
    THEN [chunks |-> st.chunks, curr |-> Append(st.curr, w),
          length |-> st.length + Len(w) + 1]
    ELSE [chunks |-> Append(st.chunks, Join(st.curr)), curr |-> <<w>>,
          length |-> Len(w)]

RECURSIVE ChunkLoop(_, _, _, _)
ChunkLoop(words, idx, st, size) ==
    IF idx > Len(words) THEN st
    ELSE ChunkLoop(words, idx + 1, ChunkStep(st, words[idx], size), size)

\* chunk_text without the flush of the last chunk after the loop
chunk_text_no_flush(t, size) ==
    ChunkLoop(Split(t), 1,
              [chunks |-> <<>>, curr |-> <<>>, length |-> 0], size).chunks

chunk_text(t, size) ==
    LET st == ChunkLoop(Split(t), 1,
                        [chunks |-> <<>>, curr |-> <<>>, length |-> 0], size)
    IN  IF st.curr # <<>> THEN Append(st.chunks, Join(st.curr)) ELSE st.chunks

\* a call chunk_text(text, chunk_size) is about to be made
InitChunk ==
    /\ InitMain
    /\ ConcOff
    /\ FileOff
    /\ ObsOff
    /\ text \in Texts
    /\ chunk_size \in 1..MaxSize
    /\ returned = <<>>
    /\ cpc = "call"

\* the call returns
ChunkText ==
    /\ cpc = "call"
    /\ returned' = chunk_text(text, chunk_size)
    /\ cpc' = "done"
    /\ UNCHANGED <<mainVars, conc, fs, obs, text, chunk_size>>

NextChunk == ChunkText

SpecChunk == InitChunk /\ [][NextChunk]_vars

(* ----------------------- durable files, byte-wise ---------------------- *)
\* keys.json, key_state.json, config.json
Paths == {"keys", "state", "config"}
\* complete JSON documents; "doc1" stands for the defaults
Docs == {"doc1", "doc2"}
\* what a file can hold: nothing (it does not exist), a truncated or partly
\* written document, or a complete one
Absent == "absent"
Partial == "partial"
NoWrite == [op |-> "idle", path |-> "keys", doc |-> "doc1", at |-> "open",
            old |-> Absent]

\* a fresh install: no file yet
InitFile ==
    /\ InitMain
    /\ ChunkOff
    /\ ConcOff
    /\ ObsOff
    /\ fs = [file |-> [p \in Paths |-> Absent], tmp |-> [p \in Paths |-> Absent],
             w |-> NoWrite, seen |-> Absent]

FileUnchanged == UNCHANGED <<mainVars, chunkVars, conc, obs>>
Begin(op, p, d) ==
    /\ fs.w.op = "idle"
    /\ fs' = [fs EXCEPT !.w = [op |-> op, path |-> p, doc |-> d, at |-> "open",
                               old |-> fs.file[p]]]
    /\ FileUnchanged

\* a call atomic_write_json(path, obj): load_keys for a missing keys.json,
\* save_keys, _save_state_locked, save_config
BeginAtomicWrite ==
    \E p \in Paths, d \in Docs :
        /\ p = "keys" /\ fs.file[p] = Absent => d = "doc1"
        /\ Begin("atomic", p, d)

\* save_and_close: its own write of keys.json.tmp and os.replace
BeginManualWrite == \E d \in Docs : Begin("manual", "keys", d)

\* load_config: "if not os.path.exists(CONFIG_FILE)": open(CONFIG_FILE, 'w')
\* and json.dump(DEFAULT_CONFIG, f)
BeginBootstrapConfig ==
    /\ fs.file["config"] = Absent
    /\ Begin("direct", "config", "doc1")

\* the file a write in progress opens: the .tmp sibling, or for load_config
\* the target itself
WritesTmp(w) == w.op \in {"atomic", "manual"}

\* open(..., 'w'): the file exists and is empty
OpenForWrite ==
    /\ fs.w.op # "idle"
    /\ fs.w.at = "open"
    /\ fs' = IF WritesTmp(fs.w)
             THEN [fs EXCEPT !.tmp[fs.w.path] = Partial, !.w.at = "dump"]
             ELSE [fs EXCEPT !.file[fs.w.path] = Partial, !.w.at = "dump"]
    /\ FileUnchanged

\* json.dump and the close of the file: the document is complete
Dump ==
    /\ fs.w.op # "idle"
    /\ fs.w.at = "dump"
    /\ fs' = IF WritesTmp(fs.w)
             THEN [fs EXCEPT !.tmp[fs.w.path] = fs.w.doc, !.w.at = "replace"]
             ELSE [fs EXCEPT !.file[fs.w.path] = fs.w.doc, !.w = NoWrite]
    /\ FileUnchanged

\* os.replace(tmp, path)
Replace ==
    /\ fs.w.op # "idle"
    /\ fs.w.at = "replace"
    /\ fs' = [fs EXCEPT !.file[fs.w.path] = fs.tmp[fs.w.path],
                        !.tmp[fs.w.path] = Absent, !.w = NoWrite]
    /\ FileUnchanged

\* the step the write is at raises: atomic_write_json removes the .tmp file
\* (best effort) and re-raises; save_and_close and load_config only catch
WriteRaises ==
    /\ fs.w.op # "idle"
    /\ \E removed \in BOOLEAN :
          fs' = IF fs.w.op = "atomic" /\ removed
                THEN [fs EXCEPT !.tmp[fs.w.path] = Absent, !.w = NoWrite]
                ELSE [fs EXCEPT !.w = NoWrite]
    /\ FileUnchanged

\* the process is killed
Crash ==
    /\ fs.w.op # "idle"
    /\ fs' = [fs EXCEPT !.w = NoWrite]
    /\ FileUnchanged

\* load_config, load_keys, load_state: open(path, 'r') and json.load
Load ==
    /\ fs.w.op = "idle"
    /\ \E p \in Paths :
          /\ fs.file[p] # Absent
          /\ fs' = [fs EXCEPT !.seen = fs.file[p]]
    /\ FileUnchanged

NextFile ==
    \/ BeginAtomicWrite
    \/ BeginManualWrite
    \/ BeginBootstrapConfig
    \/ OpenForWrite
    \/ Dump
    \/ Replace
    \/ WriteRaises
    \/ Crash
    \/ Load

SpecFile == InitFile /\ [][NextFile]_vars

\* C3: every durable file is written through a temp file and a rename:
\* while a write is in progress the target holds the content committed
\* before it, no target ever holds a partly written document, and no load
\* reads one.
C3_CrashSafe ==
    /\ \A p \in Paths : fs.file[p] # Partial
    /\ fs.seen # Partial
    /\ fs.w.op # "idle" => fs.file[fs.w.path] = fs.w.old

(* ------------------- concurrent recording of usage --------------------- *)
Threads == 1..NThreads
\* len(chunk) of the chunks the threads record
ConcLens == {1, 2}

\* ledgers the threads can start from: every key unused or used once
StartLedgers ==
    {Ledger([k \in Keys |-> IF k \in U THEN 1 ELSE 0],
            [k \in Keys |-> IF k \in U THEN 3 ELSE 0],
            [k \in U |-> 0], {}) : U \in SUBSET Keys}

\* the process has the ledger L in memory and on disk, and the threads are
\* about to record
InitConc ==
    /\ InitRest
    /\ ChunkOff
    /\ FileOff
    /\ ObsOff
    /\ \E L \in StartLedgers, ks \in [Threads -> Keys],
          ns \in [Threads -> ConcLens] :
          /\ key_usage = L.key_usage
          /\ char_usage = L.char_usage
          /\ first_used = L.first_used
          /\ invalid_keys = L.invalid_keys
          /\ stateFile = <<StatePayload(L)>>
          /\ conc = [lock |-> 0,
                     th |-> [t \in Threads |->
                               [pc |-> "acquire", key |-> ks[t], n |-> ns[t],
                                tmp |-> 0]],
                     start |-> L]

\* state_lock never keeps a thread out
LockFreeAlways(c) == TRUE

\* "with state_lock:" lets a thread in when no other thread holds the lock
LockFree(c) == c.lock = 0

\* thread t moves to position p, holding lock value l and temporary v
Move(t, p, l, v) ==
    conc' = [conc EXCEPT !.lock = l, !.th[t].pc = p, !.th[t].tmp = v]

ConcUnchanged == UNCHANGED <<API_KEYS, current_key_index, keyFile, backups,
                             now, jobVars, edits, outage, chunkVars, fs,
                             obs>>

\* with state_lock:
Acquire(t) ==
    /\ conc.th[t].pc = "acquire"
    /\ LockFree(conc)
    /\ Move(t, "first", t, 0)
    /\ UNCHANGED <<ledgerVars, stateFile>>
    /\ ConcUnchanged

\* if key not in first_used: first_used[key] = now
SetFirstUsed(t) ==
    /\ conc.th[t].pc = "first"
    /\ first_used' = IF conc.th[t].key \in DOMAIN first_used THEN first_used
                     ELSE Put(first_used, conc.th[t].key, now)
    /\ Move(t, "read_chunks", conc.lock, 0)
    /\ UNCHANGED <<key_usage, char_usage, invalid_keys, stateFile>>
    /\ ConcUnchanged

\* key_usage.get(key, 0) + 1 is evaluated
ReadChunks(t) ==
    /\ conc.th[t].pc = "read_chunks"
    /\ Move(t, "write_chunks", conc.lock, Get(key_usage, conc.th[t].key, 0) + 1)
    /\ UNCHANGED <<ledgerVars, stateFile>>
    /\ ConcUnchanged

\* key_usage[key] = ...
WriteChunks(t) ==
    /\ conc.th[t].pc = "write_chunks"
    /\ key_usage' = Put(key_usage, conc.th[t].key, conc.th[t].tmp)
    /\ Move(t, "read_chars", conc.lock, 0)
    /\ UNCHANGED <<char_usage, first_used, invalid_keys, stateFile>>
    /\ ConcUnchanged

\* char_usage.get(key, 0) + n_chars is evaluated
ReadChars(t) ==
    /\ conc.th[t].pc = "read_chars"
    /\ Move(t, "write_chars", conc.lock,
            Get(char_usage, conc.th[t].key, 0) + conc.th[t].n)
    /\ UNCHANGED <<ledgerVars, stateFile>>
    /\ ConcUnchanged

\* char_usage[key] = ...
WriteChars(t) ==
    /\ conc.th[t].pc = "write_chars"
    /\ char_usage' = Put(char_usage, conc.th[t].key, conc.th[t].tmp)
    /\ Move(t, "mark", conc.lock, 0)
    /\ UNCHANGED <<key_usage, first_used, invalid_keys, stateFile>>
    /\ ConcUnchanged

\* if char_usage[key] >= CHAR_LIMIT: invalid_keys.add(key)
Mark(t) ==
    /\ conc.th[t].pc = "mark"
    /\ invalid_keys' = MarkOverLimit(invalid_keys, char_usage, conc.th[t].key)
    /\ Move(t, "save", conc.lock, 0)
    /\ UNCHANGED <<key_usage, char_usage, first_used, stateFile>>
    /\ ConcUnchanged

\* _save_state_locked() inside try/except, then the with block ends
SaveRelease(t) ==
    /\ conc.th[t].pc = "save"
    /\ \E ok \in WriteOutcomes :
          /\ stateFile' = atomic_write_json(stateFile, StatePayload(Mem), ok)
    /\ Move(t, "done", IF conc.lock = t THEN 0 ELSE conc.lock, 0)
    /\ UNCHANGED ledgerVars
    /\ ConcUnchanged

NextConc ==
    \/ \E t \in Threads : Acquire(t)
    \/ \E t \in Threads : SetFirstUsed(t)
    \/ \E t \in Threads : ReadChunks(t)
    \/ \E t \in Threads : WriteChunks(t)
    \/ \E t \in Threads : ReadChars(t)
    \/ \E t \in Threads : WriteChars(t)
    \/ \E t \in Threads : Mark(t)
    \/ \E t \in Threads : SaveRelease(t)

SpecConc == InitConc /\ [][NextConc]_vars

\* the sum of the char counts, and the number, of the threads recording
\* against key k
RECURSIVE CharsOf(_, _)
CharsOf(k, t) ==
    IF t = 0 THEN 0
    ELSE CharsOf(k, t - 1) + IF conc.th[t].key = k THEN conc.th[t].n ELSE 0
RECURSIVE CallsOf(_, _)
CallsOf(k, t) ==
    IF t = 0 THEN 0
    ELSE CallsOf(k, t - 1) + IF conc.th[t].key = k THEN 1 ELSE 0

AllDone == conc.th # <<>> /\ \A t \in Threads : conc.th[t].pc = "done"

\* C2: when threads record usage concurrently, the final char_usage of a
\* key is its initial value plus the sum of the char counts recorded
\* against it, and its key_usage has grown by the number of recordings,
\* whatever the interleaving.
C2_NoLostUpdate ==
    AllDone =>
        \A k \in Keys :
            /\ Get(char_usage, k, 0) =
                   conc.start.char_usage[k] + CharsOf(k, NThreads)
            /\ Get(key_usage, k, 0) =
                   conc.start.key_usage[k] + CallsOf(k, NThreads)

\* all threads have recorded different char counts against one key that
\* had been used before
C2_Witness ==
    /\ AllDone
    /\ \A t \in Threads : conc.th[t].key = "k1"
    /\ conc.th[1].n # conc.th[2].n
    /\ conc.start.char_usage["k1"] > 0

(* ---------------- the worker and the interactive thread --------------- *)
\* One worker thread runs process_text and the interactive thread runs the
\* handlers of the "Manage API Keys" window, statement by statement around
\* state_lock. conc.lock is the owner of state_lock, conc.th[Worker] holds
\* the locals n and the remaining range of get_next_valid_api_key,
\* conc.th[Gui] the position of the interactive thread and the copies
\* save_and_close took; pc is the position of the worker.
Worker == 1
Gui == 2

InitLock ==
    /\ InitMain
    /\ ChunkOff
    /\ FileOff
    /\ ObsOff
    /\ conc = [lock |-> 0,
               th |-> <<[n |-> 0, left |-> 0],
                        [pc |-> "idle", old |-> EmptyLedger]>>,
               start |-> EmptyLedger]

\* the end of a "with state_lock:" block of thread t that never releases
ReleasedNever(c, t) == c.lock

\* the owner of state_lock after thread t has left its "with state_lock:"
Released(c, t) == IF c.lock = t THEN 0 ELSE c.lock

\* "with state_lock:" lets thread t in: the lock is free, or t holds it
\* already (state_lock is an RLock)
CanAcquire(c, t) == LockFree(c) \/ c.lock = t

LockUnchanged == UNCHANGED <<now, outage, backups, chunkVars, fs, obs>>

\* App.start; load_keys() and load_state(), each under state_lock
LockStartJob ==
    /\ pc = "idle"
    /\ CanAcquire(conc, Worker)
    /\ \E cs \in ChunkSeqs, ok \in WriteOutcomes :
          /\ chunks' = cs
          /\ LoadAll(Mem, ok)
    /\ i' = 1
    /\ pc' = "loop"
    /\ cancel_requested' = FALSE
    /\ log' = "none"
    /\ UNCHANGED <<current_key_index, now, key, edits, outage, conc,
                   chunkVars, fs, obs>>

\* the head of the for loop
LoopHead ==
    /\ pc = "loop"
    /\ pc' = IF i > Len(chunks) THEN "final" ELSE "len"
    /\ UNCHANGED <<memVars, fileVars, chunks, i, key, cancel_requested, log,
                   edits, conc>>
    /\ LockUnchanged

\* get_next_valid_api_key: "n = len(API_KEYS)", before the lock is taken
ReadLen ==
    /\ pc = "len"
    /\ conc' = [conc EXCEPT !.th[Worker].n = Len(API_KEYS)]
    /\ pc' = "scan_lock"
    /\ UNCHANGED <<memVars, fileVars, chunks, i, key, cancel_requested, log,
                   edits>>
    /\ LockUnchanged

\* get_next_valid_api_key: "with state_lock:" and "for _ in range(n)"
ScanLock ==
    /\ pc = "scan_lock"
    /\ CanAcquire(conc, Worker)
    /\ conc' = [conc EXCEPT !.lock = Worker,
                            !.th[Worker].left = conc.th[Worker].n]
    /\ pc' = "scan"
    /\ UNCHANGED <<memVars, fileVars, chunks, i, key, cancel_requested, log,
                   edits>>
    /\ LockUnchanged

\* get_next_valid_api_key: the range is used up, RuntimeError, which
\* process_text catches
ScanExhausted ==
    /\ pc = "scan"
    /\ conc.th[Worker].left = 0
    /\ conc' = [conc EXCEPT !.lock = Released(conc, Worker)]
    /\ pc' = "final"
    /\ log' = "exhausted"
    /\ UNCHANGED <<memVars, fileVars, chunks, i, key, cancel_requested,
                   edits>>
    /\ LockUnchanged

\* get_next_valid_api_key: "key = API_KEYS[current_key_index]" past the end
\* of the list, IndexError, which ends the job in App.run
ScanIndexError ==
    /\ pc = "scan"
    /\ conc.th[Worker].left > 0
    /\ ~CursorInRange
    /\ conc' = [conc EXCEPT !.lock = Released(conc, Worker)]
    /\ pc' = "idle"
    /\ chunks' = <<>>
    /\ i' = 0
    /\ key' = NoKey
    /\ cancel_requested' = FALSE
    /\ log' = "none"
    /\ UNCHANGED <<memVars, fileVars, edits>>
    /\ LockUnchanged

\* get_next_valid_api_key: one turn of its loop
ScanTurn ==
    /\ pc = "scan"
    /\ conc.th[Worker].left > 0
    /\ CursorInRange
    /\ LET k == API_KEYS[current_key_index + 1]
           n == conc.th[Worker].n
           found == k \notin invalid_keys /\ Get(char_usage, k, 0) < CHAR_LIMIT
       IN  /\ current_key_index' = (current_key_index + 1) % n
           /\ invalid_keys' = IF found THEN invalid_keys
                              ELSE invalid_keys \cup {k}
           /\ key' = IF found THEN k ELSE key
           /\ pc' = IF found THEN "send" ELSE "scan"
           /\ conc' = IF found
                      THEN [conc EXCEPT !.lock = Released(conc, Worker)]
                      ELSE [conc EXCEPT !.th[Worker].left = @ - 1]
    /\ UNCHANGED <<API_KEYS, key_usage, char_usage, first_used, fileVars,
                   chunks, i, cancel_requested, log, edits>>
    /\ LockUnchanged

\* send_to_elevenlabs_api: the request returns; resp is what came back
Respond ==
    /\ pc = "send"
    /\ \E resp \in {"ok", "failed", "rejected"} :
          /\ pc' = CASE resp = "ok" -> "record_lock"
                      [] resp = "rejected" -> "poison_lock"
                      [] OTHER -> "loop"
          /\ i' = IF resp = "failed" THEN i + 1 ELSE i
    /\ UNCHANGED <<memVars, fileVars, chunks, key, cancel_requested, log,
                   edits, conc>>
    /\ LockUnchanged

\* send_to_elevenlabs_api: "with state_lock:" on 401/403
PoisonLock ==
    /\ pc = "poison_lock"
    /\ CanAcquire(conc, Worker)
    /\ conc' = [conc EXCEPT !.lock = Worker]
    /\ pc' = "poison"
    /\ UNCHANGED <<memVars, fileVars, chunks, i, key, cancel_requested, log,
                   edits>>
    /\ LockUnchanged

\* send_to_elevenlabs_api: the three assignments under the lock
Poison ==
    /\ pc = "poison"
    /\ invalid_keys' = Poisoned(invalid_keys, key)
    /\ key_usage' = Put(key_usage, key, POISON_SENTINEL)
    /\ char_usage' = Put(char_usage, key, POISON_SENTINEL)
    /\ conc' = [conc EXCEPT !.lock = Released(conc, Worker)]
    /\ i' = i + 1
    /\ pc' = "loop"
    /\ UNCHANGED <<API_KEYS, first_used, current_key_index, fileVars, chunks,
                   key, cancel_requested, log, edits>>
    /\ LockUnchanged

\* process_text: "with state_lock:" after a successful request
RecordLock ==
    /\ pc = "record_lock"
    /\ CanAcquire(conc, Worker)
    /\ conc' = [conc EXCEPT !.lock = Worker]
    /\ pc' = "record"
    /\ UNCHANGED <<memVars, fileVars, chunks, i, key, cancel_requested, log,
                   edits>>
    /\ LockUnchanged

\* process_text: the recording block under the lock, then time.sleep(3)
Record ==
    /\ pc = "record"
    /\ LET fu == FirstUse(first_used, key, now)
           ku == Put(key_usage, key, Get(key_usage, key, 0) + 1)
           cu == Charge(char_usage, key, chunks[i])
           inv == MarkOverLimit(invalid_keys, cu, key)
       IN  /\ first_used' = fu
           /\ key_usage' = ku
           /\ char_usage' = cu
           /\ invalid_keys' = inv
           /\ \E ok \in WriteOutcomes :
                 stateFile' = atomic_write_json(stateFile,
                                  StatePayload(Ledger(ku, cu, fu, inv)), ok)
    /\ conc' = [conc EXCEPT !.lock = Released(conc, Worker)]
    /\ i' = i + 1
    /\ pc' = "loop"
    /\ UNCHANGED <<API_KEYS, current_key_index, keyFile, chunks, key,
                   cancel_requested, log, edits>>
    /\ LockUnchanged

\* save_state() after the loop, under state_lock, and the job is over
LockFinalSave ==
    /\ pc = "final"
    /\ CanAcquire(conc, Worker)
    /\ \E ok \in WriteOutcomes :
          stateFile' = atomic_write_json(stateFile, StatePayload(Mem), ok)
    /\ pc' = "idle"
    /\ chunks' = <<>>
    /\ i' = 0
    /\ key' = NoKey
    /\ cancel_requested' = FALSE
    /\ log' = "none"
    /\ UNCHANGED <<memVars, keyFile, edits, conc>>
    /\ LockUnchanged

\* the interactive thread moves to position p
GuiAt(p) == conc.th[Gui].pc = p
GuiTo(p) == conc' = [conc EXCEPT !.th[Gui].pc = p]
GuiUnchanged == UNCHANGED <<jobVars, stateFile>> /\ LockUnchanged

\* App.manage_keys calls save_keys(): "with state_lock:"
SaveKeysLock ==
    /\ GuiAt("idle")
    /\ CanAcquire(conc, Gui)
    /\ conc' = [conc EXCEPT !.lock = Gui, !.th[Gui].pc = "save_keys"]
    /\ UNCHANGED <<memVars, keyFile, edits>>
    /\ GuiUnchanged

\* save_keys: the write under the lock
SaveKeysWrite ==
    /\ GuiAt("save_keys")
    /\ \E ok \in WriteOutcomes :
          keyFile' = atomic_write_json(keyFile, API_KEYS, ok)
    /\ conc' = [conc EXCEPT !.lock = Released(conc, Gui),
                            !.th[Gui].pc = "idle"]
    /\ UNCHANGED <<memVars, edits>>
    /\ GuiUnchanged

\* save_and_close: "API_KEYS = new_keys"
GuiAssign ==
    /\ GuiAt("idle")
    /\ edits < MaxEdits
    /\ \E new_keys \in KeyLists \ {<<>>} : API_KEYS' = new_keys
    /\ edits' = edits + 1
    /\ GuiTo("copy")
    /\ UNCHANGED <<ledgerVars, current_key_index, keyFile>>
    /\ GuiUnchanged

\* save_and_close: the three copies
GuiCopy ==
    /\ GuiAt("copy")
    /\ conc' = [conc EXCEPT !.th[Gui].pc = "clear",
                            !.th[Gui].old = Ledger(key_usage, char_usage,
                                                   first_used, {})]
    /\ UNCHANGED <<memVars, keyFile, edits>>
    /\ GuiUnchanged

\* save_and_close: the three clear() calls
GuiClear ==
    /\ GuiAt("clear")
    /\ key_usage' = EmptyDict
    /\ char_usage' = EmptyDict
    /\ first_used' = EmptyDict
    /\ GuiTo("fill")
    /\ UNCHANGED <<API_KEYS, invalid_keys, current_key_index, keyFile, edits>>
    /\ GuiUnchanged

\* save_and_close: "for k in API_KEYS:"
GuiFill ==
    /\ GuiAt("fill")
    /\ LET old == conc.th[Gui].old
           ks == Range(API_KEYS)
       IN  /\ key_usage' = Update(key_usage,
                                  [k \in ks |-> Get(old.key_usage, k, 0)])
           /\ char_usage' = Update(char_usage,
                                   [k \in ks |-> Get(old.char_usage, k, 0)])
           /\ first_used' = Update(first_used,
                                   [k \in ks \cap DOMAIN old.first_used |->
                                       old.first_used[k]])
    /\ GuiTo("invalid")
    /\ UNCHANGED <<API_KEYS, invalid_keys, current_key_index, keyFile, edits>>
    /\ GuiUnchanged

\* save_and_close: "invalid_keys &= set(API_KEYS)"
GuiInvalid ==
    /\ GuiAt("invalid")
    /\ invalid_keys' = invalid_keys \cap Range(API_KEYS)
    /\ GuiTo("cursor")
    /\ UNCHANGED <<API_KEYS, key_usage, char_usage, first_used,
                   current_key_index, keyFile, edits>>
    /\ GuiUnchanged

\* save_and_close: "current_key_index = 0"
GuiCursor ==
    /\ GuiAt("cursor")
    /\ current_key_index' = 0
    /\ GuiTo("write")
    /\ UNCHANGED <<API_KEYS, ledgerVars, keyFile, edits>>
    /\ GuiUnchanged

\* save_and_close: keys.json is written through its .tmp file
GuiWrite ==
    /\ GuiAt("write")
    /\ \E ok \in WriteOutcomes :
          keyFile' = atomic_write_json(keyFile, API_KEYS, ok)
    /\ conc' = [conc EXCEPT !.th[Gui].pc = "idle",
                            !.th[Gui].old = EmptyLedger]
    /\ UNCHANGED <<memVars, edits>>
    /\ GuiUnchanged

NextLock ==
    \/ LockStartJob
    \/ LoopHead
    \/ ReadLen
    \/ ScanLock
    \/ ScanExhausted
    \/ ScanIndexError
    \/ ScanTurn
    \/ Respond
    \/ PoisonLock
    \/ Poison
    \/ RecordLock
    \/ Record
    \/ LockFinalSave
    \/ SaveKeysLock
    \/ SaveKeysWrite
    \/ GuiAssign
    \/ GuiCopy
    \/ GuiClear
    \/ GuiFill
    \/ GuiInvalid
    \/ GuiCursor
    \/ GuiWrite

SpecLock == InitLock /\ [][NextLock]_vars

(* --------------------------- quota scenario ---------------------------- *)
\* one job on a fresh install whose pool is the single key k1, with the
\* vendor answering 200 to every call
QuotaLens == {2, 3, 4}
QuotaChunkSeqs == UNION {[1..n -> QuotaLens] : n \in 0..MaxQuotaChunks}

InitQuota ==
    /\ InitMain
    /\ API_KEYS = <<"k1">>
    /\ ChunkOff
    /\ ConcOff
    /\ FileOff
    /\ ObsOff

\* the first job of the install
QuotaStart ==
    /\ stateFile = <<>>
    /\ StartJobWith(QuotaChunkSeqs)

NextQuota ==
    \/ QuotaStart
    \/ LoopEnd
    \/ NextKey
    \/ NextExhausted
    \/ RecordUsage
    \/ Sleep
    \/ FinalSave

SpecQuota == InitQuota /\ [][NextQuota]_vars

\* the total length of the first n chunks
RECURSIVE SumTo(_, _)
SumTo(cs, n) == IF n = 0 THEN 0 ELSE SumTo(cs, n - 1) + cs[n]

\* C11: in a job on the single fresh key k1 with every call succeeding,
\* chunk i is dispatched with k1 if and only if the total length of the
\* chunks before it is below CHAR_LIMIT; at the first chunk for which it is
\* not, the job stops for exhaustion with k1 invalid and char_usage equal
\* to that total; the loop runs to its end only if there is no such chunk.
C11_QuotaScenario ==
    [][/\ pc = "loop" /\ i <= Len(chunks) =>
            /\ (pc' = "send") = (SumTo(chunks, i - 1) < CHAR_LIMIT)
            /\ pc' = "send" => key' = "k1"
            /\ pc' # "send" =>
                  /\ pc' = "final" /\ log' = "exhausted"
                  /\ "k1" \in invalid_keys'
                  /\ char_usage'["k1"] = SumTo(chunks, i - 1)
       /\ pc = "loop" /\ i > Len(chunks) =>
            /\ pc' = "final" /\ log' = "none"
            /\ \A j \in 1..Len(chunks) : SumTo(chunks, j - 1) < CHAR_LIMIT]_vars

\* three chunks of 4 characters against the limit of 6: two of the three
\* were produced, char_usage is 8 and the job stops for exhaustion at the
\* third
C11_Witness ==
    /\ pc = "final" /\ log = "exhausted"
    /\ chunks = <<4, 4, 4>> /\ i = 3
    /\ key_usage["k1"] = 2
    /\ char_usage["k1"] = 8
    /\ "k1" \in invalid_keys

(* ------------------------------ the jobs ------------------------------ *)
\* jobs of several chunks, one after the other, with the operator's Cancel
\* button and a vendor that answers anything; no edit of the key list, no
\* restart, the clock stands and the disk works
JobLens == {2, 5}
JobChunkSeqs == UNION {[1..n -> JobLens] : n \in 0..MaxJobChunks}

InitJob ==
    /\ InitMain
    /\ ChunkOff
    /\ ConcOff
    /\ FileOff
    /\ obs = [sent |-> <<>>, resp |-> "none", rejected |-> {},
               rejected_at |-> EmptyDict, produced |-> {}, report |-> <<>>,
               dialog |-> "none", removed |-> {}, longest |-> EmptyDict,
               crossed |-> EmptyDict]

JobStart == StartJobWith(JobChunkSeqs)

NextJob ==
    \/ JobStart
    \/ LoopEnd
    \/ ObserveCancel
    \/ NextKey
    \/ NextExhausted
    \/ SendFail
    \/ SendRejected
    \/ RecordUsage
    \/ Sleep
    \/ FinalSave
    \/ Cancel

SpecJob == InitJob /\ [][NextJob]_vars

(* ------------------------ the jobs and the clock ----------------------- *)
\* jobs with a vendor that answers 200 or 401, while time passes
NextWindow ==
    \/ StartJob
    \/ LoopEnd
    \/ NextKey
    \/ NextExhausted
    \/ SendRejected
    \/ RecordUsage
    \/ Sleep
    \/ FinalSave
    \/ Tick

SpecWindow == InitJob /\ [][NextWindow]_vars

(* ------------------------- the jobs and the disk ----------------------- *)
\* jobs on a disk that can stop taking writes and take them again, with a
\* keys.json that can be taken away from outside
DiskTurn ==
    /\ outage < MaxDiskTurns
    /\ outage' = outage + 1
    /\ UNCHANGED <<memVars, fileVars, now, jobVars, edits, offVars>>

NextDisk ==
    \/ StartJob
    \/ StartJobError
    \/ LoopEnd
    \/ ObserveCancel
    \/ NextKey
    \/ NextExhausted
    \/ SendFail
    \/ SendRejected
    \/ RecordUsage
    \/ Sleep
    \/ FinalSave
    \/ Cancel
    \/ DiskTurn
    \/ KeyFileLost

SpecDisk == InitJob /\ [][NextDisk]_vars

(* ------------------------ properties of the ledger --------------------- *)
\* the entry of k in dict d: <<>> when there is none, else <<d[k]>>
Entry(d, k) == IF k \in DOMAIN d THEN <<d[k]>> ELSE <<>>
\* all that ledger L holds about key k
RecordOf(L, k) ==
    <<Entry(L.key_usage, k), Entry(L.char_usage, k), Entry(L.first_used, k),
      k \in L.invalid_keys>>
\* the record of a key after its reset
Zeroed == <<(<<0>>), (<<0>>), (<<>>), FALSE>>

\* C1: get_next_valid_api_key never returns a key that, when it is called,
\* is in invalid_keys or has char_usage >= CHAR_LIMIT.
C1_RotationExclusion ==
    [][(pc = "loop" /\ pc' = "send") =>
          /\ key' \notin invalid_keys
          /\ Get(char_usage, key', 0) < CHAR_LIMIT]_vars

\* the scan has passed over an invalid key of the pool and returned another
C1_Witness ==
    /\ pc = "send"
    /\ Len(API_KEYS) = 2
    /\ API_KEYS[1] \in invalid_keys
    /\ key = API_KEYS[2]
    /\ current_key_index = 0

\* C4: in every reachable state every key with char_usage >= CHAR_LIMIT is
\* in invalid_keys.
C4_OverLimitIsInvalid ==
    \A k \in DOMAIN char_usage :
        char_usage[k] >= CHAR_LIMIT => k \in invalid_keys

\* one key is invalid for being over the limit, another for being rejected
\* by the vendor with its counter below the limit
C4_Witness ==
    \E k1, k2 \in DOMAIN char_usage :
        /\ char_usage[k1] >= CHAR_LIMIT
        /\ k1 \in invalid_keys
        /\ k1 \in DOMAIN first_used
        /\ char_usage[k2] < CHAR_LIMIT
        /\ k2 \in invalid_keys

\* C5: in every reachable state a key without a first_used entry has
\* key_usage 0 and char_usage 0.
C5_NoFirstUseMeansUnused ==
    \A k \in Keys :
        k \notin DOMAIN first_used =>
            Get(key_usage, k, 0) = 0 /\ Get(char_usage, k, 0) = 0

\* C6: within a run of the process, the counters of a key that keeps its
\* record are lowered by no step other than an expiry reset of that key by
\* reset_expired_keys.
C6_LoweredOnlyByReset ==
    [][\A k \in DOMAIN char_usage' :
          (\/ Get(char_usage, k, 0) > char_usage'[k]
           \/ Get(key_usage, k, 0) > Get(key_usage', k, 0))
          => \/ /\ pc = "idle" /\ pc' = "loop" /\ StartJob
                /\ k \in ExpiredKeys(LoadedLedger(Mem), now)
             \/ pc' = "idle" /\ i' = 0 /\ Restart]_vars

\* the keys that reset_expired_keys finds expired in the step that starts a
\* job or the process, and the ledger it is called on
ResetInput == IF pc' = "loop" THEN LoadedLedger(Mem) ELSE LoadedLedger(EmptyLedger)
ResetStep ==
    \/ pc = "idle" /\ pc' = "loop" /\ StartJob
    \/ pc' = "idle" /\ i' = 0 /\ Restart

C8_ExpiryFrame ==
    [][ResetStep =>
          \A L \in {ResetInput} :
              \A k \in Keys \ ExpiredKeys(L, now) :
                  RecordOf(Mem, k)' = RecordOf(L, k)]_vars

\* C8 as it holds: reset_expired_keys leaves every key that is not
\* expired with the same key_usage, char_usage and first_used, and with the
\* same invalid flag unless its char_usage is at or over CHAR_LIMIT, in
\* which case it is flagged invalid.
C8_ExpiryFrameAmended ==
    [][ResetStep =>
          \A L \in {ResetInput} :
              \A k \in Keys \ ExpiredKeys(L, now) :
                  \A before \in {RecordOf(L, k)}, after \in {RecordOf(Mem, k)'} :
                      /\ after[1] = before[1]
                      /\ after[2] = before[2]
                      /\ after[3] = before[3]
                      /\ after[4] = (\/ before[4]
                                     \/ Get(L.char_usage, k, 0) >= CHAR_LIMIT)]_vars

\* a job has just started at a time for which a backup was taken; one key
\* of the pool is reset while another, first used within the window, still
\* has its usage, in memory and in the rewritten file
C8_Witness ==
    /\ pc = "loop" /\ i = 1
    /\ now \in backups
    /\ stateFile = <<StatePayload(Mem)>>
    /\ \E k, other \in Range(API_KEYS) :
          /\ RecordOf(Mem, k) = Zeroed
          /\ other \in DOMAIN first_used
          /\ now - first_used[other] < UPDATE_INTERVAL_DAYS
          /\ char_usage[other] > 0

\* C28: when reset_expired_keys has run on a disk that takes the write,
\* key_state.json holds the ledger in memory if the call changed a record
\* (by an expiry reset or by a repair-pass invalidation), and is the file of
\* before, with no new backup, if the call changed nothing.
C28_ResetPersists ==
    [][ResetStep /\ TRUE \in WriteOutcomes =>
          \A L \in {ResetInput} :
              IF Mem' # L
              THEN stateFile' = <<StatePayload(Mem)'>>
              ELSE stateFile' = stateFile /\ backups' = backups]_vars

\* C29: when reset_expired_keys runs UPDATE_INTERVAL_DAYS or more after the
\* vendor rejected a key, the key is not in invalid_keys afterwards.
C29_UniformExpiry ==
    [][ResetStep =>
          \A k \in DOMAIN obs.rejected_at :
              now - obs.rejected_at[k] >= UPDATE_INTERVAL_DAYS =>
                  k \notin invalid_keys']_vars

(* ----------------------- properties of the rotation ------------------- *)
\* key k can be handed out: not invalid and under the limit
Eligible(k) == k \notin invalid_keys /\ Get(char_usage, k, 0) < CHAR_LIMIT

\* the worker's step out of the head of the loop in which it calls
\* get_next_valid_api_key
CallsNext ==
    /\ pc = "loop" /\ i <= Len(chunks) /\ ~cancel_requested
    /\ pc' # "loop"
    /\ ~(pc' = "idle" /\ Restart)

\* C12: get_next_valid_api_key fails for exhaustion if and only if no key
\* of API_KEYS is eligible when it is called; when one is, it returns a
\* key, wherever the cursor stands.
C12_ExhaustedIffNoneEligible ==
    [][CallsNext =>
          IF \E k \in Range(API_KEYS) : Eligible(k)
          THEN pc' = "send" /\ key' \in Range(API_KEYS)
          ELSE pc' = "final" /\ log' = "exhausted"]_vars

\* C17: a job ends only from the end of process_text, where it has run
\* out of chunks, stopped for exhaustion or been cancelled, and its final
\* save_state() is done: in a process that keeps running no job ends from
\* inside the loop.
C17_JobEndsAtFinal ==
    [][pc # "idle" /\ pc' = "idle" /\ ~Restart =>
          /\ pc = "final"
          /\ log \in {"none", "exhausted", "cancelled"}]_vars

\* C32: whenever get_next_valid_api_key is called on a list that is not
\* empty, and so reads API_KEYS[current_key_index], the cursor is within
\* the list: 0 <= current_key_index < len(API_KEYS).
C32_CursorInRange ==
    pc = "loop" /\ i <= Len(chunks) /\ ~cancel_check /\ API_KEYS # <<>> =>
        0 <= current_key_index /\ current_key_index < Len(API_KEYS)

\* the char_usage of every key that was charged and never poisoned is
\* below CHAR_LIMIT plus the length of the longest chunk charged to it
OverageBound ==
    \A k \in DOMAIN obs.longest \ DOMAIN obs.rejected_at :
        Get(char_usage, k, 0) < CHAR_LIMIT + obs.longest[k]

\* C34: with the one worker, a key that was never poisoned gets at most one
\* charge that leaves its char_usage at or over CHAR_LIMIT in one quota
\* window (one value of first_used), and in every state its char_usage is
\* below CHAR_LIMIT plus the length of the longest chunk charged to it.
C34_BoundedOverage ==
    [][/\ pc = "send" /\ pc' = "sleep" /\ key \notin DOMAIN obs.rejected_at
          /\ char_usage'[key] >= CHAR_LIMIT =>
            Entry(obs.crossed, key) # <<first_used'[key]>>
       /\ OverageBound']_vars

\* C34, amended: a key that was never poisoned is charged only while its
\* char_usage is below CHAR_LIMIT, so a charge leaves char_usage below
\* CHAR_LIMIT plus the length of the chunk charged, and in every state the
\* char_usage of such a key is below CHAR_LIMIT plus the length of the
\* longest chunk charged to it: the recorded overage is that of one chunk,
\* never of several.
C34_BoundedOverageAmended ==
    [][/\ pc = "send" /\ pc' = "sleep" /\ key \notin DOMAIN obs.rejected_at =>
            /\ Get(char_usage, key, 0) < CHAR_LIMIT
            /\ char_usage'[key] < CHAR_LIMIT + chunks[i]
       /\ OverageBound']_vars

\* k1, never poisoned, was charged a chunk of 5 and a chunk of 2 characters
\* and stands at 7, over the limit of 6 by less than its longest chunk;
\* the next job has passed it over and sends with k2
C34_Witness ==
    /\ pc = "send" /\ key = "k2"
    /\ API_KEYS = <<"k1", "k2">>
    /\ Entry(char_usage, "k1") = <<7>>
    /\ Entry(obs.longest, "k1") = <<5>>
    /\ "k1" \notin DOMAIN obs.rejected_at
    /\ "k1" \in invalid_keys

\* the j-th position of the cyclic order that starts at the cursor
ScanPos(j) == (current_key_index + j) % Len(API_KEYS)

\* the turns of the scan that end on an eligible key
EligibleTurns ==
    {j \in 0..(Len(API_KEYS) - 1) : Eligible(API_KEYS[ScanPos(j) + 1])}

\* C26: a call of get_next_valid_api_key on a list of N keys returns the
\* first eligible key of the cyclic order that starts at the cursor and
\* leaves the cursor one past that key (modulo N); when none of the N keys
\* is eligible it raises RuntimeError after N keys, with the cursor N
\* positions further (modulo N).
C26_RoundRobin ==
    [][CallsNext =>
          \A E \in {EligibleTurns} :
              IF E # {}
              THEN \E j \in E :
                      /\ \A h \in E : j <= h
                      /\ pc' = "send"
                      /\ key' = API_KEYS[ScanPos(j) + 1]
                      /\ current_key_index' = ScanPos(j + 1)
              ELSE /\ pc' = "final" /\ log' = "exhausted"
                   /\ current_key_index' = ScanPos(Len(API_KEYS))]_vars

(* ----------------------- properties of the key list -------------------- *)
\* jobs and edits of the key list on a disk that works, with a vendor that
\* answers 200 or 401
EditKeys ==
    /\ edits < MaxKeyEdits
    /\ \E new_keys \in KeyLists : SaveAndCloseOn(new_keys)

NextKeys ==
    \/ StartJob
    \/ LoopEnd
    \/ NextKey
    \/ NextExhausted
    \/ SendRejected
    \/ RecordUsage
    \/ Sleep
    \/ FinalSave
    \/ EditKeys

SpecKeys == Init /\ [][NextKeys]_vars

\* C14: after save_and_close with a list that is not empty, a key of both
\* the old and the new list keeps its counters, first_used and invalid
\* flag; a key of the new list only has counters 0, no first_used and is
\* not invalid; nothing is left about a key that is not in the new list;
\* the cursor is 0 and keys.json holds the new list.
C14_Rekeyed ==
    [][edits' = edits + 1 =>
          /\ \A k \in Range(API_KEYS') \cap Range(API_KEYS) :
                /\ key_usage'[k] = Get(key_usage, k, 0)
                /\ char_usage'[k] = Get(char_usage, k, 0)
                /\ Entry(first_used', k) = Entry(first_used, k)
                /\ (k \in invalid_keys') = (k \in invalid_keys)
          /\ \A k \in Range(API_KEYS') \ Range(API_KEYS) :
                RecordOf(Mem, k)' = Zeroed
          /\ \A k \in Keys \ Range(API_KEYS') :
                RecordOf(Mem, k)' = <<(<<>>), (<<>>), (<<>>), FALSE>>
          /\ current_key_index' = 0
          /\ keyFile' = <<API_KEYS'>>]_vars

\* the same jobs and edits, with the keys that save_and_close took out of
\* the list followed until the next recorded use
SpecRemoval == InitJob /\ [][NextKeys]_vars

\* what the ledger holds about a key it has no record of
NoRecord == <<(<<>>), (<<>>), (<<>>), FALSE>>

\* C31: a key that save_and_close took out of the list, and that has not
\* been charged or put back in the list since, has no counters, no
\* first_used and no invalid flag in memory after load_keys and load_state
\* at the next job start.
C31_RemovalSurvivesReload ==
    [][pc = "idle" /\ pc' = "loop" =>
          \A k \in obs.removed : RecordOf(Mem, k)' = NoRecord]_vars

\* jobs of one chunk, short or long, one after the other, with a vendor
\* that answers 200 or 401, while time passes and the disk stops and
\* resumes taking writes; the longest chunk charged to each key is followed
OverageChunkSeqs == UNION {[1..n -> JobLens] : n \in 0..MaxChunks}

OverageStart == StartJobWith(OverageChunkSeqs)

NextOverage ==
    \/ OverageStart
    \/ LoopEnd
    \/ NextKey
    \/ NextExhausted
    \/ SendRejected
    \/ RecordUsage
    \/ Sleep
    \/ FinalSave
    \/ Tick
    \/ DiskTurn

SpecOverage == InitJob /\ [][NextOverage]_vars

\* C13: save_and_close with an empty list is rejected before any mutation:
\* in no reachable state can it change API_KEYS, a record of the ledger,
\* invalid_keys, the cursor or keys.json.
C13_EmptyPoolRejected ==
    ~ENABLED (/\ SaveAndCloseOn(<<>>)
              /\ memVars' # memVars \/ fileVars' # fileVars)

\* the operator can press Save on an empty text area while a call is in
\* flight, the cursor is off 0 and the ledger holds usage and an invalid key
C13_Witness ==
    /\ edits < MaxEdits
    /\ pc = "send"
    /\ current_key_index > 0
    /\ invalid_keys # {}
    /\ first_used # EmptyDict

C16_StopReasonSurfaced ==
    [][pc = "final" /\ pc' = "idle" /\ log \in {"none", "exhausted"} =>
          (obs'.dialog = "showinfo") = (log = "none")]_vars

\* C18: when send_to_elevenlabs_api has returned, with True or with False,
\* the worker goes through time.sleep(3) before it is back at the head of
\* the loop.
C18_Pacing ==
    [][pc = "send" /\ pc' # "send" => pc' = "sleep"]_vars

\* C19: when a request fails otherwise than by 401/403 (or its mp3 file
\* cannot be written), the key list, the ledger and the cursor stay as they
\* are and the worker is at the head of the loop for the next chunk; no
\* chunk of a job is sent twice.
C19_RecoverableFailure ==
    [][/\ pc = "send" /\ pc' # "send" /\ obs'.resp = "failed" =>
            /\ UNCHANGED <<memVars, chunks>>
            /\ pc' = "loop" /\ i' = i + 1
       /\ \A a, b \in 1..Len(obs'.sent) :
            a < b => obs'.sent[a] < obs'.sent[b]]_vars

\* the first chunk failed and the second is with the vendor
C19_Witness ==
    /\ pc = "send" /\ i = 2 /\ obs.resp = "failed" /\ obs.sent = <<1, 2>>
    /\ obs.produced = {}
    /\ key_usage = EmptyDict /\ invalid_keys = {}

\* C20: when the vendor answers 401/403 to a request made with key K, K is in
\* invalid_keys and both its counters are POISON_SENTINEL, first_used and
\* the records of the other keys stay as they are, no mp3 file is written
\* and the worker is at the head of the loop for the next chunk; no later
\* call of get_next_valid_api_key in the job returns K.
C20_Poisoning ==
    [][/\ pc = "send" /\ pc' # "send" /\ obs'.resp = "rejected" =>
            /\ key \in invalid_keys'
            /\ key_usage'[key] = POISON_SENTINEL
            /\ char_usage'[key] = POISON_SENTINEL
            /\ \A k \in Keys \ {key} : RecordOf(Mem, k)' = RecordOf(Mem, k)
            /\ UNCHANGED <<first_used, API_KEYS, obs.produced, chunks>>
            /\ pc' = "loop" /\ i' = i + 1
       /\ pc = "loop" /\ pc' = "send" => key' \notin obs.rejected]_vars

\* k1 was rejected at the first chunk and the second chunk is with the
\* vendor under k2
C20_Witness ==
    /\ pc = "send" /\ i = 2 /\ key = "k2"
    /\ obs.rejected = {"k1"}
    /\ "k1" \in invalid_keys
    /\ key_usage["k1"] = POISON_SENTINEL /\ char_usage["k1"] = POISON_SENTINEL

\* C21: when a chunk of n characters was synthesised with key K and is
\* recorded, key_usage of K is one more and char_usage of K is n more than
\* before (counted from 0 when K had no entry), first_used of K is the
\* clock if K had none and is kept otherwise, K is in invalid_keys if it
\* was or if its new char_usage is at CHAR_LIMIT or over, and the record of
\* every other key is as before.
C21_RecordUsageEffect ==
    [][pc = "send" /\ pc' = "sleep" =>
          /\ key_usage'[key] = Get(key_usage, key, 0) + 1
          /\ char_usage'[key] = Get(char_usage, key, 0) + chunks[i]
          /\ first_used'[key] = Get(first_used, key, now)
          /\ (key \in invalid_keys') =
                (key \in invalid_keys \/ char_usage'[key] >= CHAR_LIMIT)
          /\ \A k \in Keys \ {key} : RecordOf(Mem, k)' = RecordOf(Mem, k)]_vars

\* two chunks were charged to k1: ten characters, the first use of time 0
\* kept at time 1, and k1 flagged
C21_Witness ==
    /\ pc = "sleep"
    /\ Entry(key_usage, "k1") = <<2>> /\ Entry(char_usage, "k1") = <<10>>
    /\ Entry(first_used, "k1") = <<0>> /\ now = 1
    /\ "k1" \in invalid_keys

\* C22: whatever the disk does, no job ends in the exception handler of
\* App.run: the error box is never shown.
C22_BestEffortDurability == obs.dialog # "showerror"

\* C25: when process_text leaves its loop (all chunks done, exhaustion or
\* cancellation) and the disk takes the write, key_state.json holds at the
\* end of the job the ledger that is in memory.
C25_FinalPersistence ==
    [][pc = "final" /\ pc' = "idle" /\ TRUE \in WriteOutcomes =>
          stateFile' = <<StatePayload(Mem)>>]_vars

\* the only chunk of the job was rejected, so nothing was saved during the
\* loop; after the job the file holds the poisoned key
C25_Witness ==
    /\ pc = "idle" /\ obs.dialog = "showinfo"
    /\ obs.sent = <<1>> /\ obs.resp = "rejected" /\ obs.produced = {}
    /\ stateFile # <<>>
    /\ stateFile[1].invalid_keys = obs.rejected
    /\ \A k \in obs.rejected : stateFile[1].char_usage[k] = POISON_SENTINEL

\* C27: when a step of a running job has changed a counter, a first_used
\* or invalid_keys in memory, key_state.json holds the ledger that is in
\* memory after the step (the disk takes every write here).
C27_PersistOnMutation ==
    [][pc # "idle" /\ ledgerVars' # ledgerVars =>
          (stateFile = <<StatePayload(Mem)>>)']_vars

\* C30: every progress report of a job gives as total the number of chunks
\* of the job and as done the number of chunks whose mp3 file was written
\* and whose use was recorded so far; done is not below the done of the
\* report before and not above total.
C30_ProgressReports ==
    [][obs'.report # obs.report /\ obs'.report # <<>> =>
          /\ obs'.report[2] = Len(chunks')
          /\ obs'.report[1] = Cardinality(obs'.produced)
          /\ obs'.report[1] <= obs'.report[2]
          /\ obs.report # <<>> /\ pc # "idle" =>
                obs'.report[1] >= obs.report[1]]_vars

(* ----------------------- properties of the lock ----------------------- *)
\* C23: while the worker's request is with the vendor the worker does not
\* hold state_lock, so the lock is free or held by the other thread.
C23_LockNotAcrossCall == pc = "send" => conc.lock # Worker

\* the request is with the vendor and the interactive thread is inside
\* save_keys, holding the lock
C23_Witness == pc = "send" /\ conc.lock = Gui /\ GuiAt("save_keys")

\* C24: a thread that stands before a statement reading or writing API_KEYS,
\* the ledger dicts, invalid_keys or current_key_index, or writing keys.json
\* or key_state.json, holds state_lock.
C24_LockDiscipline ==
    /\ pc \in {"len", "scan", "poison", "record"} => conc.lock = Worker
    /\ conc.th[Gui].pc \in {"save_keys", "copy", "clear", "fill", "invalid",
                            "cursor", "write"} => conc.lock = Gui

(* ----------------------- properties of chunk_text ---------------------- *)
\* the words of all chunks, in order
RECURSIVE WordsOf(_)
WordsOf(cs) == IF cs = <<>> THEN <<>> ELSE Split(cs[1]) \o WordsOf(Tail(cs))

\* a chunk made of exactly one word that is longer than the chunk size
OversizedWord(c) == Len(Split(c)) = 1 /\ Len(Split(c)[1]) > chunk_size

\* C9: every chunk chunk_text returns is at most chunk_size long, except a
\* chunk that is one single word longer than chunk_size; a chunk of two or
\* more words is never longer than chunk_size, and every word of a chunk is
\* a whole word of the text.
C9_ChunkSizeBound ==
    cpc = "done" =>
        \A n \in DOMAIN returned :
            /\ Len(returned[n]) <= chunk_size \/ OversizedWord(returned[n])
            /\ Len(Split(returned[n])) >= 2 => Len(returned[n]) <= chunk_size
            /\ Range(Split(returned[n])) \subseteq Range(Split(text))

\* chunk_text returned an oversized one-word chunk and, after it, a chunk
\* that fills the chunk size exactly
C9_Witness ==
    /\ cpc = "done"
    /\ \E n, m \in DOMAIN returned :
          /\ n < m
          /\ OversizedWord(returned[n])
          /\ Len(returned[m]) = chunk_size

\* C10: the chunks joined with single spaces hold the words of the text:
\* the same words in the same order, none lost, duplicated or merged.
C10_RoundTrip ==
    cpc = "done" => Split(Join(returned)) = Split(text)

\* a text with irregular whitespace was cut into several chunks, one of
\* them holding two words
C10_Witness ==
    /\ cpc = "done"
    /\ Len(returned) >= 2
    /\ \E n \in DOMAIN returned : Len(Split(returned[n])) = 2
    /\ Join(Split(text)) # text

\* C33: every chunk chunk_text returns holds at least one word, also when
\* the first word of the text is as long as chunk_size or longer; so there
\* are never more chunks than words.
C33_NoEmptyChunk ==
    cpc = "done" =>
        /\ \A n \in DOMAIN returned : Len(Split(returned[n])) >= 1
        /\ Len(returned) <= Len(Split(text))

(* --------------------------- specifications --------------------------- *)
Next ==
    \/ StartJob
    \/ LoopEnd
    \/ ObserveCancel
    \/ NextKey
    \/ NextExhausted
    \/ NextIndexError
    \/ SendFail
    \/ SendRejected
    \/ RecordUsage
    \/ Sleep
    \/ FinalSave
    \/ Cancel
    \/ ManageKeys
    \/ SaveAndClose
    \/ Tick
    \/ DiskTrouble
    \/ Restart

Spec == Init /\ [][Next]_vars

====
